---------------------------- MODULE Spec2Model ----------------------------
(***************************************************************************)
(* A model of kitti/publish_utils.py: the publish functions that format    *)
(* KITTI data as ROS messages and hand each message to a publisher.        *)
(*                                                                         *)
(* Conventions of the model                                                *)
(*   - a Python list or tuple is a TLA+ sequence; At(s, k) is s[k] with    *)
(*     Python's 0-based index;                                             *)
(*   - lengths, coordinates and durations are fixed-point numbers counted  *)
(*     in tenths (0.5 is 5, 0.1 is 1, Point(10, -10, 0) is <<100,-100,0>>);*)
(*   - a colour channel is an exact fraction <<num, den>> in lowest terms, *)
(*     so that r/255.0 is computed and 255/255.0 is the same value as 1.0; *)
(*   - a string produced by str() is the sequence of its characters;       *)
(*   - None is the record NoneValue, a given value x is Some(x);           *)
(*   - header.stamp (rospy.Time.now()) is the ROS clock, which is not part *)
(*     of this module's state and is left out of the messages.             *)
(***************************************************************************)
EXTENDS Integers, Sequences, FiniteSets, TLC

VARIABLES
    mod_LINES,      \* the module-level list LINES as it is now
    mod_COLOR_MAP,  \* the module-level dict DETECTION_COLOR_MAP as it is now
    pc,             \* "idle" (no call yet), "box_loop" (inside publish_3dbox's for
                    \* loop), "returned" (the call is over, by return or by raise)
    call,           \* the function and the arguments of the current / most recent call
    i,              \* publish_3dbox: the loop index of enumerate(corners_3d_velos)
    marker_array,   \* publish_3dbox: the local marker_array.markers
    out,            \* what the current / most recent call has passed to publish()
    rospy_log,      \* what the current / most recent call has passed to rospy.loginfo()
    exc,            \* the exception that left the most recent call, "none" if it returned
    image,          \* publish_camera: the caller's image buffer (drawn on in place)
    cv_error_seen   \* history: an earlier call caught and logged a CvBridgeError

vars == <<mod_LINES, mod_COLOR_MAP, pc, call, i, marker_array, out, rospy_log,
          exc, image, cv_error_seen>>

-----------------------------------------------------------------------------
(* Bounds of the model *)

\* the largest number of objects (boxes) handed to one call
MaxObjects == 2

-----------------------------------------------------------------------------
(* Python values *)

At(s, k) == s[k + 1]

NoneValue == [none |-> TRUE, v |-> <<>>]
Some(x) == [none |-> FALSE, v |-> x]

RECURSIVE GCD(_, _)
GCD(a, b) == IF b = 0 THEN a ELSE GCD(b, a % b)

\* the float n/d, exactly
Frac(n, d) == LET g == GCD(n, d) IN <<n \div g, d \div g>>

Digit(d) == At(<<"0", "1", "2", "3", "4", "5", "6", "7", "8", "9">>, d)

RECURSIVE StrNat(_)
StrNat(n) == IF n < 10 THEN <<Digit(n)>> ELSE StrNat(n \div 10) \o <<Digit(n % 10)>>

\* str(n) of a Python int
str(n) == IF n < 0 THEN <<"-">> \o StrNat(-n) ELSE StrNat(n)

\* int(x) of a float counted in tenths: truncation toward zero
int(x) == IF x < 0 THEN -((-x) \div 10) ELSE x \div 10

-----------------------------------------------------------------------------
(* Module-level tables and constants *)

LINES == << <<0, 1>>, <<1, 2>>, <<2, 3>>, <<3, 0>>,
            <<4, 5>>, <<5, 6>>, <<6, 7>>, <<7, 4>>,
            <<4, 0>>, <<5, 1>>, <<6, 2>>, <<7, 3>>,
            <<4, 1>>, <<5, 0>> >>

FRAME_ID == "map"

\* 0.1 s, in tenths
LIFETIME == 1

\* label -> (b, g, r)
DETECTION_COLOR_MAP ==
    [label \in {"Car", "Pedestrian", "Cyclist"} |->
        CASE label = "Car" -> <<255, 255, 0>>
          [] label = "Pedestrian" -> <<0, 226, 255>>
          [] label = "Cyclist" -> <<141, 40, 255>>]

\* text_marker.id = track_id + 1000
TextIdOffset == 1000

\* text_marker.pose.position.z = p4[2] + 0.5, in tenths
TextZOffset == 5

\* Marker() as the message class constructs it
Marker ==
    [header |-> [frame_id |-> ""], id |-> 0, type |-> "ARROW", action |-> "ADD",
     position |-> <<0, 0, 0>>, scale |-> <<0, 0, 0>>,
     color |-> [r |-> Frac(0, 1), g |-> Frac(0, 1), b |-> Frac(0, 1), a |-> Frac(0, 1)],
     lifetime |-> 0, points |-> <<>>, text |-> <<>>]

\* Point(x, y, z)
Point(x, y, z) == <<x, y, z>>


\* mutant of Lookup: d.get(key, cyan), no KeyError
LookupWithDefault(d, key) ==
    IF key \in DOMAIN d THEN [ok |-> TRUE, v |-> d[key]]
    ELSE [ok |-> TRUE, v |-> <<255, 255, 0>>]

\* d[key]: the value, or KeyError (ok = FALSE)
Lookup(d, key) ==
    IF key \in DOMAIN d THEN [ok |-> TRUE, v |-> d[key]]
    ELSE [ok |-> FALSE, v |-> <<>>]

-----------------------------------------------------------------------------
(* Inputs the model draws the arguments from *)

\* type labels a caller may pass; "Van" is a KITTI label the colour map lacks
Labels == {"Car", "Pedestrian", "Cyclist", "Van"}

\* track ids a caller may pass; -1 is KITTI's id of an untracked object
TrackIds == {-1, 999}

\* the (8, 4) array of the corners of an axis-parallel box: rows 0-3 the lower
\* face, rows 4-7 the upper face, the fourth column the homogeneous 1.0
Cuboid(x, y, z, l, w, h) ==
    << <<x, y, z, 10>>, <<x + l, y, z, 10>>, <<x + l, y + w, z, 10>>, <<x, y + w, z, 10>>,
       <<x, y, z + h, 10>>, <<x + l, y, z + h, 10>>, <<x + l, y + w, z + h, 10>>,
       <<x, y + w, z + h, 10>> >>

\* the unit cube at the origin and a car-sized box
CornerSets == {Cuboid(0, 0, 0, 10, 10, 10), Cuboid(52, -31, -17, 40, 18, 15)}

\* the Python lists of length n over S
ListsOf(S, n) == [1..n -> S]

-----------------------------------------------------------------------------
(* publish_3dbox *)

\* lines 64-74: the colour of the LINE_LIST marker of object k
BoxColor(object_types, k, color_map) ==
    IF object_types.none
    THEN [ok |-> TRUE,
          color |-> [r |-> Frac(0, 1), g |-> Frac(1, 1), b |-> Frac(1, 1), a |-> Frac(1, 1)]]
    ELSE LET e == Lookup(color_map, At(object_types.v, k)) IN
         IF ~e.ok THEN [ok |-> FALSE, color |-> Marker.color]
         ELSE LET b == At(e.v, 0)
                  g == At(e.v, 1)
                  r == At(e.v, 2)
              IN [ok |-> TRUE,
                  color |-> [r |-> Frac(r, 255), g |-> Frac(g, 255), b |-> Frac(b, 255),
                             a |-> Frac(1, 1)]]

\* mutant of TextColor: the tuple read as r, g, b
TextColorAsRGB(object_types, k, color_map) ==
    IF object_types.none
    THEN [ok |-> TRUE,
          color |-> [r |-> Frac(0, 1), g |-> Frac(1, 1), b |-> Frac(1, 1), a |-> Frac(1, 1)]]
    ELSE LET e == Lookup(color_map, At(object_types.v, k)) IN
         IF ~e.ok THEN [ok |-> FALSE, color |-> Marker.color]
         ELSE LET r == At(e.v, 0)
                  g == At(e.v, 1)
                  b == At(e.v, 2)
              IN [ok |-> TRUE,
                  color |-> [r |-> Frac(r, 255), g |-> Frac(g, 255), b |-> Frac(b, 255),
                             a |-> Frac(1, 1)]]

\* lines 108-117: the colour of the TEXT_VIEW_FACING marker of object k
TextColor(object_types, k, color_map) ==
    IF object_types.none
    THEN [ok |-> TRUE,
          color |-> [r |-> Frac(0, 1), g |-> Frac(1, 1), b |-> Frac(1, 1), a |-> Frac(1, 1)]]
    ELSE LET e == Lookup(color_map, At(object_types.v, k)) IN
         IF ~e.ok THEN [ok |-> FALSE, color |-> Marker.color]
         ELSE LET b == At(e.v, 0)
                  g == At(e.v, 1)
                  r == At(e.v, 2)
              IN [ok |-> TRUE,
                  color |-> [r |-> Frac(r, 255), g |-> Frac(g, 255), b |-> Frac(b, 255),
                             a |-> Frac(1, 1)]]

\* mutant of BoxPoints: both points of an edge taken from its first corner
RECURSIVE BoxPointsFirstCorner(_, _)
BoxPointsFirstCorner(corners_3d_velo, lines) ==
    IF lines = <<>> THEN <<>>
    ELSE LET l == Head(lines)
             p1 == At(corners_3d_velo, At(l, 0))
             p2 == At(corners_3d_velo, At(l, 0))
         IN << Point(At(p1, 0), At(p1, 1), At(p1, 2)),
               Point(At(p2, 0), At(p2, 1), At(p2, 2)) >>
            \o BoxPointsFirstCorner(corners_3d_velo, Tail(lines))

\* lines 78-83: two points per entry of the edge list, in the list's order
RECURSIVE BoxPoints(_, _)
BoxPoints(corners_3d_velo, lines) ==
    IF lines = <<>> THEN <<>>
    ELSE LET l == Head(lines)
             p1 == At(corners_3d_velo, At(l, 0))
             p2 == At(corners_3d_velo, At(l, 1))
         IN << Point(At(p1, 0), At(p1, 1), At(p1, 2)),
               Point(At(p2, 0), At(p2, 1), At(p2, 2)) >>
            \o BoxPoints(corners_3d_velo, Tail(lines))

\* lines 54-83: the LINE_LIST marker of object k, or KeyError (ok = FALSE)
BoxMarker(corners_3d_velo, track_id, object_types, k, lines, color_map) ==
    LET c == BoxColor(object_types, k, color_map) IN
    [ok |-> c.ok,
     marker |-> [Marker EXCEPT !.header.frame_id = FRAME_ID,
                               !.id = track_id,
                               !.action = "ADD",
                               !.lifetime = LIFETIME,
                               !.type = "LINE_LIST",
                               !.color = c.color,
                               !.scale = <<1, 0, 0>>,
                               !.points = IF c.ok THEN BoxPoints(corners_3d_velo, lines)
                                          ELSE <<>>]]

\* mutant of TextMarker: anchored at corner 0
TextMarkerAtCorner0(corners_3d_velo, track_id, object_types, k, color_map) ==
    LET p4 == At(corners_3d_velo, 0)
        c == TextColor(object_types, k, color_map)
    IN [ok |-> c.ok,
        marker |-> [Marker EXCEPT !.header.frame_id = FRAME_ID,
                                  !.id = track_id + TextIdOffset,
                                  !.action = "ADD",
                                  !.lifetime = LIFETIME,
                                  !.type = "TEXT_VIEW_FACING",
                                  !.position = <<At(p4, 0), At(p4, 1), At(p4, 2) + TextZOffset>>,
                                  !.text = str(track_id),
                                  !.scale = <<10, 10, 10>>,
                                  !.color = c.color]]

\* lines 87-117: the TEXT_VIEW_FACING marker of object k, or KeyError (ok = FALSE)
TextMarker(corners_3d_velo, track_id, object_types, k, color_map) ==
    LET p4 == At(corners_3d_velo, 4)
        c == TextColor(object_types, k, color_map)
    IN [ok |-> c.ok,
        marker |-> [Marker EXCEPT !.header.frame_id = FRAME_ID,
                                  !.id = track_id + TextIdOffset,
                                  !.action = "ADD",
                                  !.lifetime = LIFETIME,
                                  !.type = "TEXT_VIEW_FACING",
                                  !.position = <<At(p4, 0), At(p4, 1), At(p4, 2) + TextZOffset>>,
                                  !.text = str(track_id),
                                  !.scale = <<10, 10, 10>>,
                                  !.color = c.color]]

\* mutant of ObjectMarkers: the text marker appended before the LINE_LIST marker
ObjectMarkersTextFirst(c, k, lines, color_map) ==
    LET corners_3d_velo == At(c.corners_3d_velos, k)
        track_id == At(c.track_ids, k)
        m == BoxMarker(corners_3d_velo, track_id, c.object_types, k, lines, color_map)
        t == TextMarker(corners_3d_velo, track_id, c.object_types, k, color_map)
    IN IF ~m.ok THEN [exc |-> "KeyError", markers |-> <<>>]
       ELSE IF ~c.publish_id THEN [exc |-> "none", markers |-> <<m.marker>>]
       ELSE IF ~t.ok THEN [exc |-> "KeyError", markers |-> <<m.marker>>]
       ELSE [exc |-> "none", markers |-> <<t.marker, m.marker>>]

\* lines 53-118: one pass of the loop body for object k: the markers it appends
\* to marker_array.markers, or the exception that ends the call
ObjectMarkers(c, k, lines, color_map) ==
    LET corners_3d_velo == At(c.corners_3d_velos, k)
        track_id == At(c.track_ids, k)
        m == BoxMarker(corners_3d_velo, track_id, c.object_types, k, lines, color_map)
        t == TextMarker(corners_3d_velo, track_id, c.object_types, k, color_map)
    IN IF ~m.ok THEN [exc |-> "KeyError", markers |-> <<>>]
       ELSE IF ~c.publish_id THEN [exc |-> "none", markers |-> <<m.marker>>]
       ELSE IF ~t.ok THEN [exc |-> "KeyError", markers |-> <<m.marker>>]
       ELSE [exc |-> "none", markers |-> <<m.marker, t.marker>>]

\* the arguments of a publish_3dbox call over n objects
Box3dArgs(n) ==
    [fn : {"publish_3dbox"},
     corners_3d_velos : ListsOf(CornerSets, n),
     track_ids : ListsOf(TrackIds, n),
     object_types : {NoneValue} \cup {Some(t) : t \in ListsOf(Labels, n)},
     publish_id : BOOLEAN,
     log : BOOLEAN]

\* mutant of ModuleTablesUnchanged: LINES += ... run again inside a call
ModuleTablesExtended ==
    /\ mod_LINES' = mod_LINES \o << <<4, 1>>, <<5, 0>> >>
    /\ UNCHANGED mod_COLOR_MAP

\* the module-level names a call may read: no function of the module assigns one
\* (no global statement, no item assignment, no in-place list operation)
ModuleTablesUnchanged == UNCHANGED <<mod_LINES, mod_COLOR_MAP>>

\* line 52: the call begins with an empty MarkerArray
publish_3dbox_call ==
    /\ pc = "idle"
    /\ \E n \in 0..MaxObjects : \E c \in Box3dArgs(n) : call' = c
    /\ pc' = "box_loop"
    /\ i' = 0
    /\ marker_array' = <<>>
    /\ out' = <<>>
    /\ rospy_log' = <<>>
    /\ exc' = "none"
    /\ ModuleTablesUnchanged
    /\ UNCHANGED <<image, cv_error_seen>>

\* lines 53-118: one iteration of the for loop
publish_3dbox_iter ==
    /\ pc = "box_loop"
    /\ i < Len(call.corners_3d_velos)
    /\ LET r == ObjectMarkers(call, i, mod_LINES, mod_COLOR_MAP) IN
       IF r.exc = "none"
       THEN /\ marker_array' = marker_array \o r.markers
            /\ i' = i + 1
            /\ UNCHANGED <<pc, exc>>
       ELSE \* the exception leaves the function: its locals are gone
            /\ marker_array' = <<>>
            /\ i' = 0
            /\ pc' = "returned"
            /\ exc' = r.exc
    /\ ModuleTablesUnchanged
    /\ UNCHANGED <<call, out, rospy_log, image, cv_error_seen>>

\* lines 120-122: the loop is over, the batch is published once
publish_3dbox_publish ==
    /\ pc = "box_loop"
    /\ i = Len(call.corners_3d_velos)
    /\ out' = Append(out, [pub |-> "markers_pub", msg |-> [markers |-> marker_array]])
    /\ rospy_log' = IF call.log
                    THEN Append(rospy_log, <<str(Len(call.corners_3d_velos)),
                                             " 3d boxes published">>)
                    ELSE rospy_log
    /\ marker_array' = <<>>
    /\ i' = 0
    /\ pc' = "returned"
    /\ exc' = "none"
    /\ ModuleTablesUnchanged
    /\ UNCHANGED <<call, image, cv_error_seen>>

-----------------------------------------------------------------------------
(* publish_camera *)

\* 2d boxes (left, top, right, bottom) in pixels, as floats counted in tenths
Boxes2d == {<<1005, 2007, 3009, 4001>>, <<-15, 127, 12420, 3749>>}

\* the arguments of a publish_camera call; bridge is what bridge.cv2_to_imgmsg
\* does with the image: it returns the message, or it raises CvBridgeError
CameraArgs(n) ==
    [fn : {"publish_camera"},
     bridge : {"converts", "CvBridgeError"},
     borders_2d_cam2s : {NoneValue} \cup {Some(b) : b \in ListsOf(Boxes2d, n)},
     object_types : {NoneValue} \cup {Some(t) : t \in ListsOf(Labels, n)},
     log : BOOLEAN]

\* lines 32-38: the rectangles drawn on the image from box k on, and the
\* exception that stops the drawing, if any
RECURSIVE DrawBoxes(_, _, _, _, _)
DrawBoxes(img, boxes, object_types, k, color_map) ==
    IF k >= Len(boxes) THEN [exc |-> "none", image |-> img]
    ELSE LET box == At(boxes, k)
             top_left == <<int(At(box, 0)), int(At(box, 1))>>
             bottom_right == <<int(At(box, 2)), int(At(box, 3))>>
             e == IF object_types.none THEN [ok |-> TRUE, v |-> <<255, 255, 0>>]
                  ELSE Lookup(color_map, At(object_types.v, k))
         IN IF ~e.ok THEN [exc |-> "KeyError", image |-> img]
            ELSE DrawBoxes(Append(img, [top_left |-> top_left,
                                        bottom_right |-> bottom_right,
                                        color |-> e.v, thickness |-> 2]),
                           boxes, object_types, k + 1, color_map)

\* line 39: what bridge.cv2_to_imgmsg(image, "bgr8") returns: cv_bridge fills in
\* the encoding and the pixels; the code names no frame, the header stays empty
cv2_to_imgmsg(img, encoding) ==
    [header |-> [frame_id |-> ""], encoding |-> encoding, data |-> img]

\* mutant of ExceptCvBridgeError: except Exception
ExceptException(e) == TRUE

\* line 41: the except clause
ExceptCvBridgeError(e) == e = "CvBridgeError"

\* lines 30-44: the call as a whole: image buffer, messages, log and exception
CameraResult(c, img, color_map) ==
    LET drawn == IF c.borders_2d_cam2s.none THEN [exc |-> "none", image |-> img]
                 ELSE DrawBoxes(img, c.borders_2d_cam2s.v, c.object_types, 0, color_map)
        raised == IF drawn.exc # "none" THEN drawn.exc
                  ELSE IF c.bridge = "CvBridgeError" THEN "CvBridgeError"
                  ELSE "none"
        caught == raised # "none" /\ ExceptCvBridgeError(raised)
        log1 == IF caught THEN <<raised>> ELSE <<>>
        log2 == IF c.log THEN <<"camera image published">> ELSE <<>>
    IN [image |-> drawn.image,
        out |-> IF raised = "none"
                THEN <<[pub |-> "cam_pub", msg |-> cv2_to_imgmsg(drawn.image, "bgr8")]>>
                ELSE <<>>,
        rospy_log |-> IF raised = "none" \/ caught THEN log1 \o log2 ELSE <<>>,
        exc |-> IF caught THEN "none" ELSE raised,
        caught |-> caught]

publish_camera ==
    /\ pc = "idle"
    /\ \E n \in 0..MaxObjects : \E c \in CameraArgs(n) :
         LET r == CameraResult(c, image, mod_COLOR_MAP) IN
         /\ call' = c
         /\ image' = r.image
         /\ out' = r.out
         /\ rospy_log' = r.rospy_log
         /\ exc' = r.exc
         /\ cv_error_seen' = (cv_error_seen \/ r.caught)
    /\ pc' = "returned"
    /\ ModuleTablesUnchanged
    /\ UNCHANGED <<i, marker_array>>

-----------------------------------------------------------------------------
(* publish_car_fov *)

\* lines 128-146
CarFovMarker ==
    [Marker EXCEPT !.header.frame_id = FRAME_ID,
                   !.action = "ADD",
                   !.lifetime = 0,
                   !.type = "LINE_STRIP",
                   !.color = [r |-> Frac(0, 1), g |-> Frac(1, 1), b |-> Frac(0, 1),
                              a |-> Frac(1, 1)],
                   !.scale = <<2, 0, 0>>,
                   !.points = <<Point(100, -100, 0), Point(0, 0, 0), Point(100, 100, 0)>>]

publish_car_fov ==
    /\ pc = "idle"
    /\ call' = [fn |-> "publish_car_fov"]
    /\ out' = <<[pub |-> "marker_pub", msg |-> CarFovMarker]>>
    /\ rospy_log' = <<>>
    /\ exc' = "none"
    /\ pc' = "returned"
    /\ ModuleTablesUnchanged
    /\ UNCHANGED <<i, marker_array, image, cv_error_seen>>

-----------------------------------------------------------------------------
(* publish_point_cloud *)

\* formats a caller may pass; "xyzit" is not one the function knows
Formats == {"xyz", "xyzi", "xyzrgb", "xyzit"}

\* (N, 4) arrays, in tenths
PointClouds == { <<>>,
                 << <<10, 20, 30, 5>> >>,
                 << <<-125, 40, -17, 3>>, <<300, -8, 12, 9>> >> }

PointCloudArgs == [fn : {"publish_point_cloud"}, point_cloud : PointClouds,
                   format : Formats, log : BOOLEAN]

\* mutant of FormatAsserted: the assertion is gone
FormatNotAsserted(format) == TRUE

\* lines 158-159: the assertion
FormatAsserted(format) == format \in {"xyz", "xyzi", "xyzrgb"}

\* lines 162-164
NewHeader == [frame_id |-> FRAME_ID]

\* PointField(name, offset, FLOAT32, 1)
PointField(name, offset) == [name |-> name, offset |-> offset, datatype |-> "FLOAT32",
                             count |-> 1]

\* point_cloud[:, :3]
FirstThreeColumns(point_cloud) ==
    [r \in 1..Len(point_cloud) |-> SubSeq(point_cloud[r], 1, 3)]

\* lines 166-181: the if / elif chain that binds pcl_msg; no branch binds it for
\* another format
PclMsg(header, point_cloud, format) ==
    IF format = "xyz"
    THEN [bound |-> TRUE,
          msg |-> [header |-> header,
                   fields |-> <<PointField("x", 0), PointField("y", 4), PointField("z", 8)>>,
                   points |-> FirstThreeColumns(point_cloud)]]
    ELSE IF format = "xyzi"
    THEN [bound |-> TRUE,
          msg |-> [header |-> header,
                   fields |-> <<PointField("x", 0), PointField("y", 4), PointField("z", 8),
                                PointField("i", 12)>>,
                   points |-> point_cloud]]
    ELSE IF format = "xyzrgb"
    THEN [bound |-> TRUE,
          msg |-> [header |-> header,
                   fields |-> <<PointField("x", 0), PointField("y", 4), PointField("z", 8),
                                PointField("rgb", 12)>>,
                   points |-> point_cloud]]
    ELSE [bound |-> FALSE, msg |-> [header |-> header, fields |-> <<>>, points |-> <<>>]]

\* lines 158-185: the call as a whole
PointCloudResult(c) ==
    IF ~FormatAsserted(c.format)
    THEN [out |-> <<>>, rospy_log |-> <<>>, exc |-> "AssertionError"]
    ELSE LET m == PclMsg(NewHeader, c.point_cloud, c.format) IN
         IF ~m.bound
         THEN [out |-> <<>>, rospy_log |-> <<>>, exc |-> "UnboundLocalError"]
         ELSE [out |-> <<[pub |-> "pcl_pub", msg |-> m.msg]>>,
               rospy_log |-> IF c.log THEN <<"point cloud published">> ELSE <<>>,
               exc |-> "none"]

publish_point_cloud ==
    /\ pc = "idle"
    /\ \E c \in PointCloudArgs :
         LET r == PointCloudResult(c) IN
         /\ call' = c
         /\ out' = r.out
         /\ rospy_log' = r.rospy_log
         /\ exc' = r.exc
    /\ pc' = "returned"
    /\ ModuleTablesUnchanged
    /\ UNCHANGED <<i, marker_array, image, cv_error_seen>>

-----------------------------------------------------------------------------
(* publish_imu, publish_gps, publish_location *)

\* OXTS records: angles in tenths of a radian, the rest in tenths
ImuData == { [roll |-> 0, pitch |-> 0, yaw |-> 0, af |-> 0, al |-> 0, au |-> 98,
              wf |-> 0, wl |-> 0, wu |-> 0],
             [roll |-> 1, pitch |-> -2, yaw |-> 15, af |-> 12, al |-> -3, au |-> 97,
              wf |-> 1, wl |-> 0, wu |-> -4] }

GpsData == { [lat |-> 490, lon |-> 84, alt |-> 1160],
             [lat |-> -338, lon |-> 1512, alt |-> -5] }

\* trajectory points (x, y), in tenths
LocPoints == {<<0, 0>>, <<15, -4>>}

\* lines 191-205; the quaternion is the tf library's function of the three angles
ImuMsg(imu_data) ==
    [header |-> [frame_id |-> FRAME_ID],
     orientation |-> <<"quaternion_from_euler", imu_data.roll, imu_data.pitch,
                       imu_data.yaw>>,
     linear_acceleration |-> <<imu_data.af, imu_data.al, imu_data.au>>,
     angular_velocity |-> <<imu_data.wf, imu_data.wl, imu_data.wu>>]

publish_imu ==
    /\ pc = "idle"
    /\ \E d \in ImuData : \E log \in BOOLEAN :
         /\ call' = [fn |-> "publish_imu", imu_data |-> d, log |-> log]
         /\ out' = <<[pub |-> "imu_pub", msg |-> ImuMsg(d)]>>
         /\ rospy_log' = IF log THEN <<"imu msg published">> ELSE <<>>
    /\ exc' = "none"
    /\ pc' = "returned"
    /\ ModuleTablesUnchanged
    /\ UNCHANGED <<i, marker_array, image, cv_error_seen>>

\* mutant of GpsMsg: the frame is not set
GpsMsgNoFrame(gps_data) ==
    [header |-> [frame_id |-> ""],
     latitude |-> gps_data.lat, longitude |-> gps_data.lon, altitude |-> gps_data.alt]

\* lines 215-220
GpsMsg(gps_data) ==
    [header |-> [frame_id |-> FRAME_ID],
     latitude |-> gps_data.lat, longitude |-> gps_data.lon, altitude |-> gps_data.alt]

publish_gps ==
    /\ pc = "idle"
    /\ \E d \in GpsData : \E log \in BOOLEAN :
         /\ call' = [fn |-> "publish_gps", gps_data |-> d, log |-> log]
         /\ out' = <<[pub |-> "gps_pub", msg |-> GpsMsg(d)]>>
         /\ rospy_log' = IF log THEN <<"gps msg published">> ELSE <<>>
    /\ exc' = "none"
    /\ pc' = "returned"
    /\ ModuleTablesUnchanged
    /\ UNCHANGED <<i, marker_array, image, cv_error_seen>>

\* lines 242-244
LocationPoints(points) == [k \in 1..Len(points) |-> Point(At(points[k], 0), At(points[k], 1), 0)]

\* lines 227-244
LocationMarker(points) ==
    [Marker EXCEPT !.header.frame_id = FRAME_ID,
                   !.action = "ADD",
                   !.lifetime = 0,
                   !.type = "LINE_STRIP",
                   !.color = [r |-> Frac(1, 1), g |-> Frac(0, 1), b |-> Frac(0, 1),
                              a |-> Frac(1, 1)],
                   !.scale = <<2, 0, 0>>,
                   !.points = LocationPoints(points)]

publish_location ==
    /\ pc = "idle"
    /\ \E n \in 0..MaxObjects : \E pts \in ListsOf(LocPoints, n) : \E log \in BOOLEAN :
         /\ call' = [fn |-> "publish_location", points |-> pts, log |-> log]
         /\ out' = <<[pub |-> "loc_pub", msg |-> LocationMarker(pts)]>>
         /\ rospy_log' = IF log THEN <<"locations published">> ELSE <<>>
    /\ exc' = "none"
    /\ pc' = "returned"
    /\ ModuleTablesUnchanged
    /\ UNCHANGED <<i, marker_array, image, cv_error_seen>>

-----------------------------------------------------------------------------
(* The caller *)

\* The caller (outside this file) is done with the call: it has seen the result
\* or caught the exception, the subscribers have taken the messages, and it goes
\* on to its next frame.  What persists is the module's own state.
next_frame ==
    /\ pc = "returned"
    /\ pc' = "idle"
    /\ call' = [fn |-> "none"]
    /\ out' = <<>>
    /\ rospy_log' = <<>>
    /\ exc' = "none"
    /\ image' = <<>>
    /\ UNCHANGED <<mod_LINES, mod_COLOR_MAP, i, marker_array, cv_error_seen>>

-----------------------------------------------------------------------------

Init ==
    /\ mod_LINES = LINES
    /\ mod_COLOR_MAP = DETECTION_COLOR_MAP
    /\ pc = "idle"
    /\ call = [fn |-> "none"]
    /\ i = 0
    /\ marker_array = <<>>
    /\ out = <<>>
    /\ rospy_log = <<>>
    /\ exc = "none"
    /\ image = <<>>
    /\ cv_error_seen = FALSE

Next ==
    \/ publish_3dbox_call
    \/ publish_3dbox_iter
    \/ publish_3dbox_publish
    \/ publish_camera
    \/ publish_car_fov
    \/ publish_point_cloud
    \/ publish_imu
    \/ publish_gps
    \/ publish_location
    \/ next_frame

Spec == Init /\ [][Next]_vars

-----------------------------------------------------------------------------
(* What the properties speak of *)

In3dbox == call.fn = "publish_3dbox" /\ pc \in {"box_loop", "returned"}

Returned3dbox == call.fn = "publish_3dbox" /\ pc = "returned"

Published3dbox == Returned3dbox /\ exc = "none"

\* the markers built so far: the local list inside the loop, the published batch
\* after the call
Built ==
    IF In3dbox /\ pc = "box_loop" THEN marker_array
    ELSE IF Published3dbox /\ Len(out) = 1 THEN out[1].msg.markers
    ELSE <<>>

\* the number of objects whose markers are in Built
NBuilt ==
    IF In3dbox /\ pc = "box_loop" THEN i
    ELSE IF Published3dbox THEN Len(call.corners_3d_velos)
    ELSE 0

\* where object k's markers are expected in Built (1-based)
PolyAt(k) == IF call.publish_id THEN 2 * k + 1 ELSE k + 1
TextAt(k) == 2 * k + 2

XYZ(p) == <<p[1], p[2], p[3]>>

KnownLabels == {"Car", "Pedestrian", "Cyclist"}

\* the colour the documentation of the table gives each label, as r, g, b
ExpectedRGB(label) ==
    CASE label = "Car" -> << <<0, 1>>, <<1, 1>>, <<1, 1>> >>
      [] label = "Pedestrian" -> << <<1, 1>>, <<226, 255>>, <<0, 1>> >>
      [] label = "Cyclist" -> << <<1, 1>>, <<8, 51>>, <<47, 85>> >>

RGBA(m) == <<m.color.r, m.color.g, m.color.b, m.color.a>>

\* the value of a decimal string
DigitValue(ch) == CHOOSE d \in 0..9 : Digit(d) = ch

RECURSIVE DigitsValue(_)
DigitsValue(t) ==
    IF Len(t) = 0 THEN 0
    ELSE 10 * DigitsValue(SubSeq(t, 1, Len(t) - 1)) + DigitValue(t[Len(t)])

IsDecimal(t) ==
    LET d == IF Len(t) > 0 /\ t[1] = "-" THEN Tail(t) ELSE t IN
    /\ Len(d) > 0
    /\ \A k \in 1..Len(d) : \E v \in 0..9 : Digit(v) = d[k]
    /\ Len(d) > 1 => d[1] # "0"

DecimalValue(t) == IF t[1] = "-" THEN -DigitsValue(Tail(t)) ELSE DigitsValue(t)

HasUnknownLabel(types, n) ==
    /\ ~types.none
    /\ \E k \in 0..(n - 1) : At(types.v, k) \notin KnownLabels

FrameOf(m) == m.header.frame_id

\* every message handed to a publisher, a batch counted marker by marker
MessagesOut ==
    UNION { IF out[k].pub = "markers_pub"
            THEN {[pub |-> out[k].pub, frame_id |-> FrameOf(out[k].msg.markers[j])] :
                      j \in 1..Len(out[k].msg.markers)}
            ELSE {[pub |-> out[k].pub, frame_id |-> FrameOf(out[k].msg)]}
            : k \in 1..Len(out) }

-----------------------------------------------------------------------------
(* Properties *)

\* C1 (as stated): the LINE_LIST marker of every object has exactly 24 points,
\* points[2e] and points[2e+1] being the x, y, z of the corners that entry e of
\* the edge list names, for e in 0..11.
C1_TwentyFourPoints ==
    \A k \in 0..(NBuilt - 1) :
        LET m == Built[PolyAt(k)]
            corners == At(call.corners_3d_velos, k)
        IN /\ Len(corners) = 8 => Len(m.points) = 24
           /\ \A e \in 0..11 :
                /\ At(m.points, 2 * e) = XYZ(At(corners, At(At(LINES, e), 0)))
                /\ At(m.points, 2 * e + 1) = XYZ(At(corners, At(At(LINES, e), 1)))

\* C1 (amended): the edge list has 14 entries (12 box edges and the 2 diagonals
\* of the front face), so the LINE_LIST marker of every object with 8 corners has
\* exactly 28 points, and for every e in 0..13 points[2e] and points[2e+1] are
\* the x, y, z of corners[LINES[e][0]] and corners[LINES[e][1]], copied unchanged.
C1_PointsFollowEdgeList ==
    \A k \in 0..(NBuilt - 1) :
        LET m == Built[PolyAt(k)]
            corners == At(call.corners_3d_velos, k)
        IN Len(corners) = 8 =>
             /\ m.type = "LINE_LIST"
             /\ Len(LINES) = 14
             /\ Len(m.points) = 28
             /\ \A e \in 0..13 :
                  /\ At(m.points, 2 * e) = XYZ(At(corners, At(At(LINES, e), 0)))
                  /\ At(m.points, 2 * e + 1) = XYZ(At(corners, At(At(LINES, e), 1)))

\* a published batch of two different boxes
C1_Witness ==
    /\ Published3dbox
    /\ Len(call.corners_3d_velos) = 2
    /\ At(call.corners_3d_velos, 0) # At(call.corners_3d_velos, 1)
    /\ Len(out) = 1
    /\ Len(out[1].msg.markers[1].points) = 28

\* C2 (as stated): in a batch published with publish_id and pairwise distinct
\* track ids, all marker ids are pairwise distinct.
C2_MarkerIdsDistinct ==
    (/\ Published3dbox
     /\ call.publish_id
     /\ \A a, b \in 1..Len(call.track_ids) :
            a # b => call.track_ids[a] # call.track_ids[b])
    => \A a, b \in 1..Len(Built) : a # b => Built[a].id # Built[b].id

\* C3: the LINE_LIST marker and the text marker of an object have the same
\* colour: the table's entry for the object's label, read as b, g, r and divided
\* by 255, or (0, 1, 1) without object_types; alpha is 1.
C3_SameColour ==
    (In3dbox /\ call.publish_id) =>
        \A k \in 0..(NBuilt - 1) :
            LET m == Built[PolyAt(k)]
                t == Built[TextAt(k)]
                rgb == IF call.object_types.none
                       THEN << <<0, 1>>, <<1, 1>>, <<1, 1>> >>
                       ELSE ExpectedRGB(At(call.object_types.v, k))
            IN /\ m.type = "LINE_LIST"
               /\ t.type = "TEXT_VIEW_FACING"
               /\ RGBA(m) = RGBA(t)
               /\ RGBA(m) = rgb \o << <<1, 1>> >>

\* a published batch holding a pedestrian and a cyclist, labelled
C3_Witness ==
    /\ Published3dbox
    /\ call.publish_id
    /\ ~call.object_types.none
    /\ call.object_types.v = <<"Pedestrian", "Cyclist">>
    /\ Len(out) = 1
    /\ Len(out[1].msg.markers) = 4

\* C4: publish_point_cloud with a format outside xyz, xyzi, xyzrgb ends in the
\* failed assertion and publishes nothing; with one of the three it publishes
\* exactly one message, on pcl_pub.
C4_FormatChecked ==
    (pc = "returned" /\ call.fn = "publish_point_cloud") =>
        IF call.format \in {"xyz", "xyzi", "xyzrgb"}
        THEN /\ exc = "none"
             /\ Len(out) = 1
             /\ out[1].pub = "pcl_pub"
             /\ Len(out[1].msg.fields) = (IF call.format = "xyz" THEN 3 ELSE 4)
        ELSE /\ exc = "AssertionError"
             /\ out = <<>>

\* a call with an unknown format has ended
C4_Witness ==
    /\ pc = "returned"
    /\ call.fn = "publish_point_cloud"
    /\ call.format = "xyzit"
    /\ call.point_cloud # <<>>
    /\ out = <<>>

\* C5: a publish_3dbox call that raises nothing publishes exactly one batch: n
\* markers without publish_id, 2n with it, in input order, every LINE_LIST marker
\* followed at once by the object's text marker; nothing is published before the
\* loop is over, and an empty input gives one empty batch.
C5_OneBatchInOrder ==
    /\ (In3dbox /\ pc = "box_loop") => out = <<>>
    /\ Published3dbox =>
         LET n == Len(call.corners_3d_velos) IN
         /\ Len(out) = 1
         /\ out[1].pub = "markers_pub"
         /\ Len(Built) = (IF call.publish_id THEN 2 * n ELSE n)
         /\ \A k \in 0..(n - 1) :
              /\ Built[PolyAt(k)].type = "LINE_LIST"
              /\ Built[PolyAt(k)].id = At(call.track_ids, k)
              /\ Built[PolyAt(k)].points[1] = XYZ(At(At(call.corners_3d_velos, k), 0))
              /\ call.publish_id =>
                   /\ Built[TextAt(k)].type = "TEXT_VIEW_FACING"
                   /\ Built[TextAt(k)].id = At(call.track_ids, k) + 1000

\* a batch of two objects with their labels, four markers
C5_Witness ==
    /\ Published3dbox
    /\ call.publish_id
    /\ call.track_ids = <<999, -1>>
    /\ Len(out) = 1
    /\ Len(out[1].msg.markers) = 4

\* C6: with object_types given and a label outside Car, Pedestrian, Cyclist on
\* some object, publish_3dbox ends in KeyError and publishes nothing, the objects
\* before the unknown one included.
C6_UnknownLabelIsFatal ==
    (In3dbox /\ HasUnknownLabel(call.object_types, Len(call.corners_3d_velos))) =>
        /\ out = <<>>
        /\ pc = "returned" => exc = "KeyError"

\* the second object's label is unknown: the call has ended, the first object's
\* markers were built and never published
C6_Witness ==
    /\ Returned3dbox
    /\ ~call.object_types.none
    /\ call.object_types.v = <<"Car", "Van">>
    /\ exc = "KeyError"
    /\ out = <<>>

\* the camera call met a label the colour map lacks while drawing the boxes
CameraUnknownLabel ==
    /\ ~call.borders_2d_cam2s.none
    /\ HasUnknownLabel(call.object_types, Len(call.borders_2d_cam2s.v))

\* C7: in publish_camera a CvBridgeError of the conversion is caught and logged:
\* the call returns, nothing is published for that image, and a later call
\* publishes as usual; a KeyError of an unknown label is not caught, it leaves
\* publish_camera and nothing is published.
C7_OnlyCvBridgeErrorCaught ==
    /\ (pc = "returned" /\ call.fn = "publish_camera") =>
         IF CameraUnknownLabel
         THEN /\ exc = "KeyError"
              /\ out = <<>>
              /\ rospy_log = <<>>
         ELSE IF call.bridge = "CvBridgeError"
         THEN /\ exc = "none"
              /\ out = <<>>
              /\ Len(rospy_log) >= 1
              /\ rospy_log[1] = "CvBridgeError"
              /\ cv_error_seen
         ELSE /\ exc = "none"
              /\ Len(out) = 1
              /\ out[1].pub = "cam_pub"
              /\ "CvBridgeError" \notin {rospy_log[k] : k \in 1..Len(rospy_log)}
    /\ (cv_error_seen /\ pc = "returned" /\ exc = "none"
          /\ ~(call.fn = "publish_camera" /\ call.bridge = "CvBridgeError")) =>
         Len(out) = 1

\* after a conversion error was caught, a later publish_camera call publishes
\* its image
C7_Witness ==
    /\ cv_error_seen
    /\ pc = "returned"
    /\ call.fn = "publish_camera"
    /\ call.bridge = "converts"
    /\ Len(out) = 1
    /\ out[1].pub = "cam_pub"

\* C8: whatever calls were made, and however they ended, LINES and
\* DETECTION_COLOR_MAP are what they were when the module was loaded, and a
\* published box batch is the one the loaded tables give for the arguments.
C8_TablesNeverWritten ==
    /\ mod_LINES = LINES
    /\ mod_COLOR_MAP = DETECTION_COLOR_MAP
    /\ Published3dbox =>
         \A k \in 0..(Len(call.corners_3d_velos) - 1) :
            /\ Built[PolyAt(k)].points = BoxPoints(At(call.corners_3d_velos, k), LINES)
            /\ ~call.object_types.none =>
                 LET bgr == DETECTION_COLOR_MAP[At(call.object_types.v, k)] IN
                 Built[PolyAt(k)].color.b = Frac(bgr[1], 255)

\* a call has failed after an earlier call caught its error
C8_Witness ==
    /\ cv_error_seen
    /\ Returned3dbox
    /\ exc = "KeyError"
    /\ mod_LINES = LINES

\* C9 (as stated): every message published by any publish function carries
\* FRAME_ID in its header.
C9_EveryMessageInFrame ==
    \A m \in MessagesOut : m.frame_id = FRAME_ID

\* C9 (amended): every message published by publish_3dbox, publish_car_fov,
\* publish_location, publish_point_cloud, publish_imu and publish_gps carries
\* FRAME_ID in its header; the image of publish_camera is published as
\* cv2_to_imgmsg returns it, with no frame name set on it.
C9_FrameExceptImage ==
    \A m \in MessagesOut :
        IF m.pub = "cam_pub" THEN m.frame_id = "" ELSE m.frame_id = FRAME_ID

\* a batch with a text marker has been published
C9_Witness ==
    /\ Published3dbox
    /\ call.publish_id
    /\ Len(call.track_ids) = 1
    /\ [pub |-> "markers_pub", frame_id |-> "map"] \in MessagesOut

\* C10: with publish_id the text marker of an object stands at the x and y of
\* its corner 4 and 0.5 above that corner's z, and its text is the decimal
\* string of the track id; without publish_id no text marker is built.
C10_TextMarker ==
    In3dbox =>
        IF call.publish_id
        THEN \A k \in 0..(NBuilt - 1) :
                LET t == Built[TextAt(k)]
                    p4 == At(At(call.corners_3d_velos, k), 4)
                IN /\ t.type = "TEXT_VIEW_FACING"
                   /\ t.position = <<p4[1], p4[2], p4[3] + 5>>
                   /\ IsDecimal(t.text)
                   /\ DecimalValue(t.text) = At(call.track_ids, k)
        ELSE \A k \in 1..Len(Built) : Built[k].type = "LINE_LIST"

\* the labels "999" and "-1" over the upper front left corners of two boxes
C10_Witness ==
    /\ Published3dbox
    /\ call.publish_id
    /\ call.track_ids = <<999, -1>>
    /\ Len(out) = 1
    /\ out[1].msg.markers[2].text = <<"9", "9", "9">>
    /\ out[1].msg.markers[4].text = <<"-", "1">>
    /\ out[1].msg.markers[4].position[3] = At(At(call.corners_3d_velos, 1), 4)[3] + 5

=============================================================================
